---------------------------- MODULE Spec2Model ----------------------------
(***************************************************************************)
(* A model of uvtest: the `scan` and `run` commands of src/uvtest/cli.py,  *)
(* the three strategy functions of src/uvtest/runner.py and find_packages  *)
(* of src/uvtest/discovery.py.                                             *)
(*                                                                         *)
(* Strings that the code inspects character by character (package names    *)
(* and --package patterns) are sequences of one-character strings.  Text   *)
(* captured from a subprocess is a sequence of tokens; the tokens in       *)
(* Whitespace are what str.strip() removes.                                *)
(*                                                                         *)
(* Three specifications:                                                   *)
(*   Spec           one invocation of `uvtest scan` or `uvtest run`        *)
(*   SpecStrategy   one direct call of a strategy function of runner.py    *)
(*   SpecDiscovery  one call of find_packages(root) on a directory tree    *)
(***************************************************************************)
EXTENDS Integers, Sequences, FiniteSets, TLC

VARIABLES
    \* ---- one invocation of the command line (cli.py) ----
    command,              \* "scan" or "run"
    packages,             \* what find_packages(Path.cwd()) returned
    fail_fast,            \* --fail-fast
    sync,                 \* --sync
    package,              \* the --package patterns, in the order given
    verbose,              \* ctx.obj["verbose"]: number of -v
    extra_args,           \* the command-line words after `--`
    pc,                   \* where the command is
    packages_with_tests,  \* cli.py local of the same name
    idx,                  \* position of `for pkg in packages_with_tests`
    results,              \* cli.py local: <<name, passed, duration>> triples
    calls,                \* the strategy functions invoked so far, in order
    echoed,               \* what click.echo was asked to print, as tags
    exit_code,            \* the process exit status, NoCode while running
    exit_at,              \* which exit ended the process
    \* ---- one direct call of a strategy function (runner.py) ----
    h_fn,                 \* the function called
    h_args,               \* its arguments
    h_proc,               \* what subprocess.run does in that call
    h_elapsed,            \* time.time() - start_time in that call
    h_spawn,              \* the arguments subprocess.run was given
    h_ret,                \* the record returned, NoReturn before the call
    \* ---- one call of find_packages(root) (discovery.py) ----
    d_root,               \* the directory tree below the root
    d_pc,                 \* where the call is
    d_stack,              \* the active calls of _scan_directory, innermost last
    d_packages,           \* the local list `packages`
    d_visited,            \* paths of the directories _scan_directory was called on
    d_result,             \* the list returned
    d_raised,             \* the exception that left find_packages, if any
    \* ---- two invocations of run compared (SpecTwin) ----
    twin                  \* what the first of the two invocations did

cliVars == <<command, packages, fail_fast, sync, package, verbose, extra_args, pc,
             packages_with_tests, idx, results, calls, echoed,
             exit_code, exit_at>>
harnessVars == <<h_fn, h_args, h_proc, h_elapsed, h_spawn, h_ret>>
discVars == <<d_root, d_pc, d_stack, d_packages, d_visited, d_result, d_raised>>
vars == <<cliVars, harnessVars, discVars, twin>>

-----------------------------------------------------------------------------
(* Bounds of the model *)

\* at most this many packages in what discovery returns
MaxPkgs == 3
\* at most this many --package options on the command line
MaxPatterns == 2

\* package names find_packages may have produced
PackageNames == { <<"a">>, <<"a", "b">>, <<"b">> }
\* patterns the user may give to --package
PatternSet == { <<"a", "*">>, <<"?">> }
\* exit statuses of the uv subprocess: pytest's 0 (passed), 1 (tests failed),
\* 2 (interrupted / usage error) and 5 (no tests collected)
ReturnCodes == {0, 1, 2, 5}
\* elapsed wall-clock seconds a call may measure: the value is never looked
\* at by the code, it is only stored, so one measured value stands for all
Durations == {1}
\* text on the two channels of the subprocess
Stdouts == { <<>>, <<"out">>, <<"out", "\n">> }
Stderrs == { <<>>, <<"err">> }
Whitespace == {" ", "\n", "\t"}

-----------------------------------------------------------------------------
(* Values *)

NoCode == -100
NoReturn == [kind |-> "none"]
\* Optional[list[str]] = None
None == [some |-> FALSE, val |-> <<>>]
Some(v) == [some |-> TRUE, val |-> v]

\* Python's order on str is the order of code points: the characters that
\* occur in names, in that order
Alphabet == <<"*", "-", ".", "?", "_", "a", "b", "c", "d", "e", "h", "i", "k", "l", "n", "o", "p", "r", "s", "t", "u", "v", "w">>
Ord(c) == CHOOSE i \in DOMAIN Alphabet : Alphabet[i] = c

RECURSIVE StrLeq(_, _)
StrLeq(s, t) ==
    IF s = <<>> THEN TRUE
    ELSE IF t = <<>> THEN FALSE
    ELSE IF Head(s) = Head(t) THEN StrLeq(Tail(s), Tail(t))
    ELSE Ord(Head(s)) < Ord(Head(t))

\* discovery.py Package, as cli.py reads it: name, path, has_tests.  path is
\* the package's directory: one distinct directory per package, here the
\* position discovery returned it at.  The dataclass has no other field that
\* cli.py reads, and no test_dependencies field at all.
Package(name, path, has_tests) ==
    [name |-> name, path |-> path, has_tests |-> has_tests]

\* the lists find_packages can return: sorted by name (discovery.py:119),
\* names need not be unique
SortedByName(ps) ==
    \A i \in 1..(Len(ps) - 1) : StrLeq(ps[i].name, ps[i + 1].name)

DiscoveryResults ==
    LET shapes == UNION { [1..n -> PackageNames \X BOOLEAN] : n \in 0..MaxPkgs }
        mk(f) == [i \in DOMAIN f |-> Package(f[i][1], i, f[i][2])]
    IN  { ps \in { mk(f) : f \in shapes } : SortedByName(ps) }

PatternTuples == UNION { [1..n -> PatternSet] : n \in 0..MaxPatterns }

-----------------------------------------------------------------------------
(* runner.py *)

\* timeout=300 of the `uv sync` subprocess
SyncTimeout == 300
\* timeout: int = 600, the default of both test runners
DefaultTimeout == 600

\* What subprocess.run(cmd, cwd=..., capture_output=True, text=True,
\* timeout=...) can do: complete with a return code and two captured
\* channels, or raise one of the exceptions runner.py handles: TimeoutExpired,
\* FileNotFoundError (no `uv` binary, or no such cwd), or another OSError,
\* here OSError itself and its subclass PermissionError.
OSErrorKinds == {"OSError", "PermissionError"}
ProcKinds == {"completed", "TimeoutExpired", "FileNotFoundError"} \cup OSErrorKinds
Completed(rc, out, err) ==
    [kind |-> "completed", returncode |-> rc, stdout |-> out, stderr |-> err]
Raises(k) == [kind |-> k, returncode |-> 0, stdout |-> <<>>, stderr |-> <<>>]
ProcOutcomes ==
    { Completed(rc, out, err) : rc \in ReturnCodes, out \in Stdouts, err \in Stderrs }
    \cup { Raises(k) : k \in ProcKinds \ {"completed"} }

\* str.strip()
RECURSIVE LStrip(_)
LStrip(s) ==
    IF s # <<>> /\ Head(s) \in Whitespace THEN LStrip(Tail(s)) ELSE s
RECURSIVE RStrip(_)
RStrip(s) ==
    IF s # <<>> /\ s[Len(s)] \in Whitespace
    THEN RStrip(SubSeq(s, 1, Len(s) - 1))
    ELSE s
Strip(s) == RStrip(LStrip(s))

\* output = result.stdout
\* if result.stderr:
\*     output = output + "\n" + result.stderr if output else result.stderr
CombineOutput(stdout, stderr) ==
    IF stderr # <<>>
    THEN IF stdout # <<>> THEN stdout \o <<"\n">> \o stderr ELSE stderr
    ELSE stdout

\* an exception that leaves a function instead of a returned record
Propagates(exception) == [raised |-> exception]

SyncResult(package_name, success, output, return_code) ==
    [package_name |-> package_name, success |-> success,
     output |-> output, return_code |-> return_code]

TestResult(package_name, passed, duration, output, return_code) ==
    [package_name |-> package_name, passed |-> passed, duration |-> duration,
     output |-> output, return_code |-> return_code]

UvNotFound == <<"Error: 'uv' command not found. Please ensure UV is installed.">>

\* cmd = ["uv", "sync"]; if not verbose: cmd.append("--quiet")
SyncCmd(verbose_) ==
    <<"uv", "sync">> \o (IF ~verbose_ THEN <<"--quiet">> ELSE <<>>)

\* a sync_package that reports success whatever the return code
sync_package_always_success(package_path, package_name, verbose_, proc) ==
    SyncResult(package_name, TRUE, <<>>,
               IF proc.kind = "completed" THEN proc.returncode ELSE -1)

\* sync_package without its last clause, `except OSError`: FileNotFoundError
\* is still handled, any other OSError leaves the function
sync_package_no_oserror_clause(package_path, package_name, verbose_, proc) ==
    CASE proc.kind = "completed" ->
            SyncResult(package_name, proc.returncode = 0,
                       Strip(CombineOutput(proc.stdout, proc.stderr)),
                       proc.returncode)
      [] proc.kind = "TimeoutExpired" ->
            SyncResult(package_name, FALSE,
                       <<"Sync timed out after 300 seconds">>, -1)
      [] proc.kind = "FileNotFoundError" ->
            SyncResult(package_name, FALSE, UvNotFound, -1)
      [] proc.kind \in OSErrorKinds -> Propagates(proc.kind)

\* sync_package(package_path, package_name, verbose), given what its
\* subprocess does
sync_package(package_path, package_name, verbose_, proc) ==
    CASE proc.kind = "completed" ->
            SyncResult(package_name, proc.returncode = 0,
                       Strip(CombineOutput(proc.stdout, proc.stderr)),
                       proc.returncode)
      [] proc.kind = "TimeoutExpired" ->
            SyncResult(package_name, FALSE,
                       <<"Sync timed out after 300 seconds">>, -1)
      [] proc.kind = "FileNotFoundError" ->
            SyncResult(package_name, FALSE, UvNotFound, -1)
      [] proc.kind \in OSErrorKinds ->
            SyncResult(package_name, FALSE, <<"Error running sync: ", "e">>, -1)

\* if pytest_args is None: pytest_args = []
ArgsOrEmpty(pytest_args) == IF pytest_args.some THEN pytest_args.val ELSE <<>>

\* cmd = ["uv", "run", "pytest"] + pytest_args
CachedCmd(pytest_args) == <<"uv", "run", "pytest">> \o ArgsOrEmpty(pytest_args)

\* run_tests_in_package with the isolated strategy's documented policy
\* copied into it: exit code 5 counted as passed
run_tests_in_package_accepts_5(package_path, package_name, pytest_args, timeout, proc, elapsed) ==
    CASE proc.kind = "completed" ->
            TestResult(package_name, proc.returncode \in {0, 5}, elapsed,
                       Strip(CombineOutput(proc.stdout, proc.stderr)),
                       proc.returncode)
      [] proc.kind = "TimeoutExpired" ->
            TestResult(package_name, FALSE, elapsed,
                       <<"Test execution timed out after ", ToString(timeout), " seconds">>,
                       -1)
      [] proc.kind = "FileNotFoundError" ->
            TestResult(package_name, FALSE, elapsed, UvNotFound, -1)
      [] proc.kind \in OSErrorKinds ->
            TestResult(package_name, FALSE, elapsed, <<"Error running tests: ", "e">>, -1)

\* run_tests_in_package(package_path, package_name, pytest_args, timeout),
\* given what its subprocess does and the time measured
run_tests_in_package(package_path, package_name, pytest_args, timeout, proc, elapsed) ==
    CASE proc.kind = "completed" ->
            TestResult(package_name, proc.returncode = 0, elapsed,
                       Strip(CombineOutput(proc.stdout, proc.stderr)),
                       proc.returncode)
      [] proc.kind = "TimeoutExpired" ->
            TestResult(package_name, FALSE, elapsed,
                       <<"Test execution timed out after ", ToString(timeout), " seconds">>,
                       -1)
      [] proc.kind = "FileNotFoundError" ->
            TestResult(package_name, FALSE, elapsed, UvNotFound, -1)
      [] proc.kind \in OSErrorKinds ->
            TestResult(package_name, FALSE, elapsed, <<"Error running tests: ", "e">>, -1)

\* for dep in test_dependencies: cmd.extend(["--with", dep])
RECURSIVE WithDeps(_)
WithDeps(test_dependencies) ==
    IF test_dependencies = <<>> THEN <<>>
    ELSE <<"--with", Head(test_dependencies)>> \o WithDeps(Tail(test_dependencies))

\* cmd = ["uv", "run", "--isolated"] + deps + ["--with", str(package_path)]
\*       + ["pytest"] + pytest_args
IsolatedCmd(package_path, test_dependencies, pytest_args) ==
    <<"uv", "run", "--isolated">> \o WithDeps(test_dependencies)
        \o <<"--with", ToString(package_path)>> \o <<"pytest">>
        \o ArgsOrEmpty(pytest_args)

\* run_tests_isolated without its `except subprocess.TimeoutExpired` clause:
\* TimeoutExpired is no OSError, so it leaves the function
run_tests_isolated_no_timeout_clause(package_path, package_name, test_dependencies, pytest_args, timeout, proc, elapsed) ==
    CASE proc.kind = "completed" ->
            TestResult(package_name, proc.returncode = 0, elapsed,
                       Strip(CombineOutput(proc.stdout, proc.stderr)),
                       proc.returncode)
      [] proc.kind = "TimeoutExpired" -> Propagates("TimeoutExpired")
      [] proc.kind = "FileNotFoundError" ->
            TestResult(package_name, FALSE, elapsed, UvNotFound, -1)
      [] proc.kind \in OSErrorKinds ->
            TestResult(package_name, FALSE, elapsed, <<"Error running tests: ", "e">>, -1)

\* run_tests_isolated(package_path, package_name, test_dependencies,
\* pytest_args, timeout), given what its subprocess does and the time measured
run_tests_isolated(package_path, package_name, test_dependencies, pytest_args, timeout, proc, elapsed) ==
    CASE proc.kind = "completed" ->
            TestResult(package_name, proc.returncode = 0, elapsed,
                       Strip(CombineOutput(proc.stdout, proc.stderr)),
                       proc.returncode)
      [] proc.kind = "TimeoutExpired" ->
            TestResult(package_name, FALSE, elapsed,
                       <<"Test execution timed out after ", ToString(timeout), " seconds">>,
                       -1)
      [] proc.kind = "FileNotFoundError" ->
            TestResult(package_name, FALSE, elapsed, UvNotFound, -1)
      [] proc.kind \in OSErrorKinds ->
            TestResult(package_name, FALSE, elapsed, <<"Error running tests: ", "e">>, -1)

-----------------------------------------------------------------------------
(* cli.py *)

\* number of -v options; the code only tests verbose >= 1, >= 2 and == 0
Verbosities == {0, 1, 2}

\* fnmatch.fnmatch(name, pattern) on a POSIX system (normcase is the
\* identity there): `*` matches any run of characters, `?` any single one,
\* every other character of the patterns of PatternSet matches itself; the
\* whole name must match.
RECURSIVE fnmatch(_, _)
fnmatch(name, pattern) ==
    IF pattern = <<>> THEN name = <<>>
    ELSE IF Head(pattern) = "*"
         THEN fnmatch(name, Tail(pattern))
              \/ (name # <<>> /\ fnmatch(Tail(name), pattern))
    ELSE /\ name # <<>>
         /\ (Head(pattern) = "?" \/ Head(pattern) = Head(name))
         /\ fnmatch(Tail(name), Tail(pattern))

\* a selection that keeps every discovered package
WithTests_everything(ps) == ps

\* packages_with_tests = [p for p in packages if p.has_tests]
WithTests(ps) == SelectSeq(ps, LAMBDA p : p.has_tests)

\* the inner loop below without its `break`: one append per matching pattern
RECURSIVE PatternLoop_no_break(_, _)
PatternLoop_no_break(pkg, patterns) ==
    IF patterns = <<>> THEN <<>>
    ELSE IF fnmatch(pkg.name, Head(patterns))
         THEN <<pkg>> \o PatternLoop_no_break(pkg, Tail(patterns))
    ELSE PatternLoop_no_break(pkg, Tail(patterns))

\* for pattern in package:
\*     if fnmatch.fnmatch(pkg.name, pattern):
\*         filtered_packages.append(pkg); break
\* The value is what the inner loop appends for pkg.
RECURSIVE PatternLoop(_, _)
PatternLoop(pkg, patterns) ==
    IF patterns = <<>> THEN <<>>
    ELSE IF fnmatch(pkg.name, Head(patterns)) THEN <<pkg>>
    ELSE PatternLoop(pkg, Tail(patterns))

\* filtered_packages = []; for pkg in packages_with_tests: <the loop above>
RECURSIVE FilterPackages(_, _)
FilterPackages(ps, patterns) ==
    IF ps = <<>> THEN <<>>
    ELSE PatternLoop(Head(ps), patterns) \o FilterPackages(Tail(ps), patterns)

\* one entry of `calls`: the function, the package it was given, and the
\* success / passed flag of the record it returned
Call(fn, pkg, ok) == [fn |-> fn, path |-> pkg.path, name |-> pkg.name, ok |-> ok]

\* sys.exit(code), or the interpreter ending on an uncaught exception
Exit(code, at) ==
    /\ exit_code' = code
    /\ exit_at' = at
    /\ pc' = "exited"

\* a loop that passes over the package after the current one
Advance_skipping(i) ==
    /\ idx' = i + 2
    /\ pc' = IF i + 2 > Len(packages_with_tests) THEN "report" ELSE "loop"

\* a loop that stays on the current package
Advance_retrying(i) ==
    /\ idx' = i
    /\ pc' = "loop"

\* the `for` statement moving on from position i: the next package, or the
\* statements after the loop when there is none
Advance(i) ==
    /\ idx' = i + 1
    /\ pc' = IF i + 1 > Len(packages_with_tests) THEN "report" ELSE "loop"

\* the `for` statement starting on the list ps
Advance0(ps) ==
    /\ idx' = 1
    /\ pc' = IF ps = <<>> THEN "report" ELSE "loop"

\* `break`
Break == idx' = idx /\ pc' = "report"

\* if verbose >= 1: click.echo(f"\nTesting {pkg_name_display}...")
EchoTesting == IF verbose >= 1 THEN <<"Testing">> ELSE <<>>

\* if not packages_with_tests:   (scan, line 54)
ScanNothingFound(with_tests) == with_tests = <<>>

\* run without the check of lines 145-151
NoMatch_unchecked(patterns, selected) == FALSE

\* if package: ... if not packages_with_tests:   (run, lines 133 and 145)
NoMatch(patterns, selected) == patterns # <<>> /\ selected = <<>>

\* run without the check of lines 153-155
NothingToRun_unchecked(selected) == FALSE

\* if not packages_with_tests:   (run, line 153)
NothingToRun(selected) == selected = <<>>

\* run going on to the tests whatever sync_package returned
SyncFailed_ignored(sync_res) == FALSE

\* if not sync_result.success:   (line 174)
SyncFailed(sync_res) == ~sync_res.success

\* a fail-fast that only a verbose run obeys
StopAfterSyncFailure_if_verbose == fail_fast /\ verbose >= 1

\* if fail_fast:   (line 184, inside the sync failure path)
StopAfterSyncFailure == fail_fast

\* run without the fail-fast check after a test run
StopAfterTest_never(test_result) == FALSE

\* if fail_fast and not test_result.passed:   (line 220)
StopAfterTest(test_result) == fail_fast /\ ~test_result.passed

\* an aggregate that looks at the last result only
any_failed_last_only(rs) == rs # <<>> /\ ~rs[Len(rs)][2]

\* any_failed = any(not passed for _, passed, _ in results)
any_failed(rs) == \E i \in 1..Len(rs) : ~rs[i][2]

\* an exit status taken from the first result alone
ExitStatus_first_only(rs) == IF rs # <<>> /\ ~rs[1][2] THEN 1 ELSE 0

\* sys.exit(1 if any_failed else 0)
ExitStatus(rs) == IF any_failed(rs) THEN 1 ELSE 0

\* the words that may follow `--` on the command line
ExtraArgLists == { <<>>, <<"-x">> }

\* cli.py lines 86-112: run declares the options --fail-fast, --sync and
\* --package and no click.argument, and no context setting allows extra
\* arguments, so click ends the process with a usage error (status 2) before
\* the body of run is entered: pc stays where it was.
ClickRejects ==
    /\ pc = "start"
    /\ exit_at = "none"
    /\ extra_args # <<>>
    /\ echoed' = echoed \o <<"Error: Got unexpected extra argument">>
    /\ exit_code' = 2
    /\ exit_at' = "usage"
    /\ UNCHANGED <<command, packages, fail_fast, sync, package, verbose, extra_args,
                   pc, packages_with_tests, idx, results, calls, harnessVars, discVars, twin>>

\* cli.py lines 199 and 202: the strategy functions are called without
\* pytest_args, which then takes its default
PassedPytestArgs == None

\* scan: cli.py lines 46-84, the whole command
Scan ==
    /\ pc = "start"
    /\ command = "scan"
    /\ extra_args = <<>>
    /\ LET with_tests == WithTests(packages) IN
         /\ packages_with_tests' = with_tests
         /\ IF ScanNothingFound(with_tests)
            THEN /\ echoed' = echoed \o <<"No packages with tests found.">>
                 /\ Exit(1, "no_packages")
            ELSE /\ echoed' = echoed
                        \o [i \in 1..Len(with_tests) |-> "package line"]
                        \o <<"packages with tests found.">>
                 /\ Exit(0, "returned")
    /\ UNCHANGED <<command, packages, fail_fast, sync, package, verbose, extra_args, idx,
                   results, calls, harnessVars, discVars, twin>>

\* run: cli.py lines 125-158, discovery, the filter and the two early exits
RunSelect ==
    /\ pc = "start"
    /\ command = "run"
    /\ extra_args = <<>>
    /\ LET with_tests == WithTests(packages)
           selected == IF package # <<>>
                       THEN FilterPackages(with_tests, package)
                       ELSE with_tests
       IN
         /\ packages_with_tests' = selected
         /\ IF NoMatch(package, selected)
            THEN /\ echoed' = echoed \o <<"No packages match the filter(s)">>
                 /\ Exit(1, "no_match")
                 /\ UNCHANGED <<idx, results>>
            ELSE IF NothingToRun(selected)
            THEN /\ echoed' = echoed \o <<"No packages with tests found.">>
                 /\ Exit(1, "no_packages")
                 /\ UNCHANGED <<idx, results>>
            ELSE /\ results' = <<>>
                 /\ Advance0(selected)
                 /\ UNCHANGED <<echoed, exit_code, exit_at>>
    /\ UNCHANGED <<command, packages, fail_fast, sync, package, verbose, extra_args,
                   calls, harnessVars, discVars, twin>>

\* the branches of line 170 taken the wrong way round
UseSyncMode_inverted == ~sync

\* run: cli.py line 170, `if sync:`, the choice of strategy for a package
UseSyncMode == sync

\* run: cli.py lines 161-196, one package in sync mode up to the return of
\* sync_package, and the whole failure path of lines 174-192
LoopSync ==
    /\ pc = "loop"
    /\ UseSyncMode
    /\ LET pkg == packages_with_tests[idx] IN
       \E proc \in ProcOutcomes :
         LET sync_res == sync_package(pkg.path, pkg.name, verbose >= 2, proc) IN
           /\ calls' = Append(calls, Call("sync_package", pkg, sync_res.success))
           /\ IF SyncFailed(sync_res)
              THEN /\ results' = Append(results, <<pkg.name, FALSE, 0>>)
                   /\ IF StopAfterSyncFailure
                      THEN /\ echoed' = echoed \o EchoTesting
                                  \o <<"Failed to sync", "Stopping execution due to --fail-fast">>
                           /\ Break
                      ELSE /\ echoed' = echoed \o EchoTesting \o <<"Failed to sync">>
                           /\ Advance(idx)
              ELSE /\ echoed' = echoed \o EchoTesting
                          \o (IF verbose >= 2 /\ sync_res.output # <<>>
                              THEN <<"Sync output">> ELSE <<>>)
                   /\ pc' = "run_cached"
                   /\ UNCHANGED <<results, idx>>
    /\ UNCHANGED <<command, packages, fail_fast, sync, package, verbose, extra_args,
                   packages_with_tests, exit_code, exit_at, harnessVars, discVars, twin>>

\* what lines 204-228 do with test_result
AfterTest(pkg, test_result, before) ==
    /\ results' = Append(results, <<pkg.name, test_result.passed, test_result.duration>>)
    /\ IF StopAfterTest(test_result)
       THEN /\ echoed' = echoed \o before
                   \o (IF verbose >= 2 THEN <<"output">> ELSE <<>>)
                   \o (IF verbose >= 1 THEN <<"FAILED">> ELSE <<>>)
                   \o <<"Stopping execution due to --fail-fast">>
            /\ Break
       ELSE /\ echoed' = echoed \o before
                   \o (IF verbose >= 2 THEN <<"output">> ELSE <<>>)
                   \o (IF verbose >= 1
                       THEN <<IF test_result.passed THEN "PASSED" ELSE "FAILED">>
                       ELSE <<>>)
            /\ Advance(idx)

\* run: cli.py lines 198-199 and 204-228, the test run of a synced package
LoopRunCached ==
    /\ pc = "run_cached"
    /\ LET pkg == packages_with_tests[idx] IN
       \E proc \in ProcOutcomes, elapsed \in Durations :
         LET test_result == run_tests_in_package(pkg.path, pkg.name, PassedPytestArgs,
                                                 DefaultTimeout, proc, elapsed)
         IN /\ calls' = Append(calls, Call("run_tests_in_package", pkg, test_result.passed))
            /\ AfterTest(pkg, test_result, <<>>)
    /\ UNCHANGED <<command, packages, fail_fast, sync, package, verbose, extra_args,
                   packages_with_tests, exit_code, exit_at, harnessVars, discVars, twin>>

\* run: cli.py lines 161-168 and 200-228, one package in isolated mode.
\* Line 202 reads pkg.test_dependencies before it calls run_tests_isolated:
\* on an object that has no such attribute Python raises AttributeError,
\* nothing in cli.py catches it, and the process ends with status 1.
LoopIsolated ==
    /\ pc = "loop"
    /\ ~UseSyncMode
    /\ LET pkg == packages_with_tests[idx] IN
         IF "test_dependencies" \in DOMAIN pkg
         THEN \E proc \in ProcOutcomes, elapsed \in Durations :
                LET test_result == run_tests_isolated(pkg.path, pkg.name,
                                       pkg.test_dependencies, PassedPytestArgs,
                                       DefaultTimeout, proc, elapsed)
                IN /\ calls' = Append(calls, Call("run_tests_isolated", pkg, test_result.passed))
                   /\ AfterTest(pkg, test_result, EchoTesting)
                   /\ UNCHANGED <<exit_code, exit_at>>
         ELSE /\ echoed' = echoed \o EchoTesting \o <<"Traceback: AttributeError">>
              /\ Exit(1, "uncaught")
              /\ UNCHANGED <<results, calls, idx>>
    /\ UNCHANGED <<command, packages, fail_fast, sync, package, verbose, extra_args,
                   packages_with_tests, harnessVars, discVars, twin>>

\* run: cli.py lines 230-246, the summary and the aggregate exit code
Report ==
    /\ pc = "report"
    /\ echoed' = echoed \o
           (IF verbose = 0
            THEN <<"Test Results:">> \o [i \in 1..Len(results) |-> "result line"]
            ELSE <<>>)
    /\ Exit(ExitStatus(results), "aggregate")
    /\ UNCHANGED <<command, packages, fail_fast, sync, package, verbose, extra_args,
                   packages_with_tests, idx, results, calls, harnessVars, discVars, twin>>

-----------------------------------------------------------------------------
(* discovery.py *)

\* at most this many subdirectories directly under the discovery root
MaxDirs == 2

\* names of directory entries
DirA == <<"a">>
DirB == <<"b">>
Hidden == <<".", "h">>
Dist == <<"d", "i", "s", "t">>
Tests == <<"t", "e", "s", "t", "s">>
Test == <<"t", "e", "s", "t">>
\* the manifest's file name is compared as a whole, never by character
PyprojectToml == <<"pyproject.toml">>

SKIP_DIRS ==
    { <<".", "v", "e", "n", "v">>,
      <<"_", "_", "p", "y", "c", "a", "c", "h", "e", "_", "_">>,
      <<"n", "o", "d", "e", "_", "m", "o", "d", "u", "l", "e", "s">>,
      <<".", "g", "i", "t">>,
      <<".", "t", "o", "x">>,
      <<".", "n", "o", "x">>,
      Dist,
      <<"b", "u", "i", "l", "d">>,
      <<".", "e", "g", "g", "s">> }

\* what a pyproject.toml can be.  "absent": no such file; "unreadable":
\* open() raises an OSError; "malformed": tomllib raises TOMLDecodeError;
\* "noproject": valid TOML without a project key; "nofield": a [project]
\* table without name; "named": project.name is a string; "nonstring":
\* project.name = 1; "nontable": project = "x", not a table.
Absent == [kind |-> "absent"]
Named(name) == [kind |-> "named", name |-> name]
Manifest(kind) == [kind |-> kind]
\* the value of `name = 1` in a manifest
NotAString == <<"int 1">>

\* a directory: its base name, its pyproject.toml, its `tests`/`test` entry
\* ("none", "tests_dir", "test_dir", or "tests_file": a regular file named
\* tests) and its other subdirectories.  A tests or test directory is empty.
\* access is what the permission bits of the directory allow the user:
\* "rwx" everything; "x_only" looking up its entries by name but not
\* listing them (e.g. mode 311); "none" neither (mode 000).
Dir(name, manifest, tests, kids) ==
    [name |-> name, manifest |-> manifest, tests |-> tests, kids |-> kids, access |-> "rwx"]
Locked(dir, access) == [dir EXCEPT !.access = access]
EmptyDir(name) == Dir(name, Absent, "none", {})

\* one entry of a directory listing; dir is the directory behind a
\* directory entry
NoDir == [name |-> <<>>]
Entry(name, is_dir, dir) == [name |-> name, is_dir |-> is_dir, dir |-> dir]

FileEntries(d) ==
    (IF d.manifest.kind # "absent"
     THEN <<Entry(PyprojectToml, FALSE, NoDir)>> ELSE <<>>)
    \o (IF d.tests = "tests_file" THEN <<Entry(Tests, FALSE, NoDir)>> ELSE <<>>)

DirEntries(d) ==
    { Entry(k.name, TRUE, k) : k \in d.kids }
    \cup (IF d.tests = "tests_dir" THEN {Entry(Tests, TRUE, EmptyDir(Tests))} ELSE {})
    \cup (IF d.tests = "test_dir" THEN {Entry(Test, TRUE, EmptyDir(Test))} ELSE {})

Perms(S) ==
    { f \in [1..Cardinality(S) -> S] : \A i, j \in DOMAIN f : i # j => f[i] # f[j] }

\* list(directory.iterdir()): the entries in an order the operating system
\* chooses.  The subdirectories come in every order; the regular files stand
\* first, since line 90 passes over them wherever they stand.
iterdir(d) == { FileEntries(d) \o p : p \in Perms(DirEntries(d)) }

\* lines 84-87: list(directory.iterdir()) raises PermissionError for a
\* directory that may not be listed; the except clause returns, which is
\* what an empty listing does
ScanListings(d) == IF d.access = "rwx" THEN iterdir(d) ELSE {<<>>}

\* line 97, pyproject_path.is_file(), stats a path inside the entry.  For an
\* entry that may not be searched the stat fails with EACCES: pathlib up to
\* Python 3.13 re-raises it as PermissionError (is_file ignores only ENOENT,
\* ENOTDIR, EBADF and ELOOP), a pathlib that goes through os.path.isfile
\* answers False.  "ok" is a stat that succeeds or finds nothing.
StatOutcomes(d) == IF d.access = "none" THEN {"PermissionError", "False"} ELSE {"ok"}

\* (directory / name).is_dir() and .is_file()
is_dir(d, name) ==
    \E e \in DirEntries(d) : e.name = name
is_file(d, name) ==
    \E i \in DOMAIN FileEntries(d) : FileEntries(d)[i].name = name

\* _parse_package_name: only OSError and TOMLDecodeError are caught;
\* data.get("project", {}).get("name") returns whatever value name has, and
\* calls .get on whatever value project has
_parse_package_name(manifest) ==
    CASE manifest.kind \in {"absent", "unreadable", "malformed"} -> None
      [] manifest.kind \in {"noproject", "nofield"} -> None
      [] manifest.kind = "named" -> Some(manifest.name)
      [] manifest.kind = "nonstring" -> Some(NotAString)
      [] manifest.kind = "nontable" -> Propagates("AttributeError")

\* a check that takes any entry of that name, whatever its type
_has_test_directory_any_entry(package_dir) ==
    \/ is_dir(package_dir, Tests) \/ is_file(package_dir, Tests)
    \/ is_dir(package_dir, Test) \/ is_file(package_dir, Test)

_has_test_directory(package_dir) ==
    is_dir(package_dir, Tests) \/ is_dir(package_dir, Test)

\* the skip rule without its second half
_should_skip_dir_listed_only(dirname) == dirname \in SKIP_DIRS

_should_skip_dir(dirname) ==
    dirname \in SKIP_DIRS \/ (dirname # <<>> /\ Head(dirname) = ".")

\* names sort as Python values: two str by StrLeq, the int 1 equal to itself;
\* a str and an int do not compare (TypeError)
IsStr(name) == name # NotAString
NameLeq(n1, n2) ==
    IF IsStr(n1) /\ IsStr(n2) THEN StrLeq(n1, n2) ELSE TRUE
SortRaises(ps) ==
    \E i, j \in DOMAIN ps : IsStr(ps[i].name) # IsStr(ps[j].name)

\* a sort that leaves the list as the scan built it
SortByName_unsorted(ps) == ps

\* packages.sort(key=lambda p: p.name): Python's sort is stable, so packages
\* of equal name keep the order the scan found them in
RECURSIVE SortByName(_)
SortByName(ps) ==
    IF ps = <<>> THEN <<>>
    ELSE LET front == SortByName(SubSeq(ps, 1, Len(ps) - 1))
             last == ps[Len(ps)]
             k == Cardinality({ i \in DOMAIN front : NameLeq(front[i].name, last.name) })
         IN  SubSeq(front, 1, k) \o <<last>> \o SubSeq(front, k + 1, Len(front))

\* a fallback that is not the directory's name
FallbackName_constant(entry) == <<"u", "n", "k", "n", "o", "w", "n">>

\* lines 100-102: `name = entry.name` when the reader returned None
FallbackName(entry) == entry.name

\* the directories the scan starts from, if the root were treated as one of
\* its own entries
FirstEntries_with_root(root, listing) == <<Entry(root.name, TRUE, root)>>

\* line 116, _scan_directory(root): the loop runs over the root's entries;
\* the root itself is never an entry
FirstEntries(root, listing) == listing

\* a scan that stops at a directory it emitted a package for
Descends_unless_package(found) == ~found

\* line 114, _scan_directory(entry), stands after the `if` of line 97 and
\* outside it: the recursive call is made whether or not a package was found
Descends(found) == TRUE

\* one frame of _scan_directory: the directory's path below the root and the
\* entries the for loop has not reached yet
Frame(path, entries) == [path |-> path, entries |-> entries]

\* ---- the file systems find_packages is run on ----

\* a manifest together with a tests entry
Profile(manifest, tests) == [manifest |-> manifest, tests |-> tests]
Profiles ==
    { Profile(Absent, "tests_dir"),
      Profile(Named(DirA), "tests_dir"),
      Profile(Named(DirB), "none"),
      Profile(Manifest("nofield"), "test_dir"),
      Profile(Manifest("noproject"), "tests_file"),
      Profile(Manifest("malformed"), "none"),
      Profile(Manifest("unreadable"), "tests_dir"),
      Profile(Manifest("nonstring"), "none"),
      Profile(Manifest("nontable"), "none") }

\* directories two levels below the root
LeafDirs ==
    { Dir(DirA, Named(DirB), "tests_dir", {}),
      Dir(Hidden, Named(DirA), "none", {}) }

\* directories directly below the root: ordinary ones, and ones whose name
\* the scan skips
OrdinaryDirs ==
    { Dir(n, p.manifest, p.tests, k) :
        n \in {DirA, DirB}, p \in Profiles, k \in {{}} \cup { {l} : l \in LeafDirs } }
SkippedDirs ==
    { Dir(n, Named(DirA), "tests_dir", k) :
        n \in {Hidden, Dist}, k \in { {}, {Dir(DirA, Named(DirB), "tests_dir", {})} } }
\* package directories whose permission bits keep the user out, each with
\* a package nested in it
LockedDirs ==
    { Locked(Dir(n, Named(DirB), "tests_dir", {Dir(DirA, Named(DirB), "tests_dir", {})}), a) :
        n \in {DirA, DirB}, a \in {"x_only", "none"} }
TopDirs == OrdinaryDirs \cup SkippedDirs \cup LockedDirs
TopNames == { d.name : d \in TopDirs }

KidSets ==
    UNION { { { f[n] : n \in N } : f \in { g \in [N -> TopDirs] : \A n \in N : g[n].name = n } } :
            N \in { M \in SUBSET TopNames : Cardinality(M) <= MaxDirs } }

RootName == <<"r">>
FileSystems ==
    { Dir(RootName, m, "none", kids) : m \in {Absent, Named(DirA)}, kids \in KidSets }

\* ---- find_packages ----

Top == d_stack[Len(d_stack)]
ReplaceTop(frame) == [d_stack EXCEPT ![Len(d_stack)] = frame]

\* lines 76-80 and 116 up to the first iteration: the call of
\* find_packages(root) and the listing of the root
FindPackages ==
    /\ d_pc = "call"
    /\ \E listing \in ScanListings(d_root) :
          d_stack' = <<Frame(<<>>, FirstEntries(d_root, listing))>>
    /\ d_visited' = {<<>>}
    /\ d_pc' = "scan"
    /\ UNCHANGED <<d_root, d_packages, d_result, d_raised, cliVars, harnessVars, twin>>

\* lines 89-114: one iteration of `for entry in entries`, up to and
\* including the listing at the head of the recursive call of line 114
ScanEntry ==
    /\ d_pc = "scan"
    /\ d_stack # <<>>
    /\ Top.entries # <<>>
    /\ LET entry == Head(Top.entries)
           rest == Frame(Top.path, Tail(Top.entries))
           path == Top.path \o <<entry.name>>
       IN  IF ~entry.is_dir \/ _should_skip_dir(entry.name)
           THEN /\ d_stack' = ReplaceTop(rest)
                /\ UNCHANGED <<d_packages, d_visited, d_pc, d_raised>>
           ELSE \E stat \in StatOutcomes(entry.dir) :
                LET found == stat = "ok" /\ is_file(entry.dir, PyprojectToml)
                    name == _parse_package_name(entry.dir.manifest)
                IN  IF stat = "PermissionError"
                    THEN /\ d_pc' = "raised"
                         /\ d_raised' = "PermissionError"
                         /\ UNCHANGED <<d_stack, d_packages, d_visited>>
                    ELSE IF found /\ "raised" \in DOMAIN name
                    THEN /\ d_pc' = "raised"
                         /\ d_raised' = name.raised
                         /\ UNCHANGED <<d_stack, d_packages, d_visited>>
                    ELSE /\ d_packages' =
                              IF found
                              THEN Append(d_packages,
                                      Package(IF name.some THEN name.val
                                              ELSE FallbackName(entry),
                                              path, _has_test_directory(entry.dir)))
                              ELSE d_packages
                         /\ IF Descends(found)
                            THEN /\ \E listing \in ScanListings(entry.dir) :
                                       d_stack' = Append(ReplaceTop(rest), Frame(path, listing))
                                 /\ d_visited' = d_visited \cup {path}
                            ELSE /\ d_stack' = ReplaceTop(rest)
                                 /\ UNCHANGED d_visited
                         /\ UNCHANGED <<d_pc, d_raised>>
    /\ UNCHANGED <<d_root, d_result, cliVars, harnessVars, twin>>

\* the for loop of one _scan_directory call is exhausted: the call returns
ScanReturn ==
    /\ d_pc = "scan"
    /\ d_stack # <<>>
    /\ Top.entries = <<>>
    /\ d_stack' = SubSeq(d_stack, 1, Len(d_stack) - 1)
    /\ UNCHANGED <<d_root, d_pc, d_packages, d_visited, d_result, d_raised,
                   cliVars, harnessVars, twin>>

\* lines 118-121: the sort and the return
SortAndReturn ==
    /\ d_pc = "scan"
    /\ d_stack = <<>>
    /\ IF SortRaises(d_packages)
       THEN /\ d_pc' = "raised"
            /\ d_raised' = "TypeError"
            /\ UNCHANGED d_result
       ELSE /\ d_pc' = "returned"
            /\ d_result' = SortByName(d_packages)
            /\ UNCHANGED d_raised
    /\ UNCHANGED <<d_root, d_stack, d_packages, d_visited, cliVars, harnessVars, twin>>

DiscoveryIdle ==
    /\ d_root = EmptyDir(RootName)
    /\ d_pc = "idle"
    /\ d_stack = <<>>
    /\ d_packages = <<>>
    /\ d_visited = {}
    /\ d_result = <<>>
    /\ d_raised = "none"

-----------------------------------------------------------------------------
(* Specification of one command-line invocation *)

\* no second invocation is being compared
TwinIdle == twin = [phase |-> 0]

HarnessIdle ==
    /\ h_fn = "none"
    /\ h_args = <<>>
    /\ h_proc = Raises("OSError")
    /\ h_elapsed = 0
    /\ h_spawn = <<>>
    /\ h_ret = NoReturn

CliIdle ==
    /\ command = "none"
    /\ packages = <<>>
    /\ fail_fast = FALSE
    /\ sync = FALSE
    /\ package = <<>>
    /\ verbose = 0
    /\ extra_args = <<>>
    /\ pc = "idle"
    /\ packages_with_tests = <<>>
    /\ idx = 0
    /\ results = <<>>
    /\ calls = <<>>
    /\ echoed = <<>>
    /\ exit_code = NoCode
    /\ exit_at = "none"

\* the state when main() dispatches to the command; scan takes no option
\* but the group's -v
Init ==
    /\ command \in {"scan", "run"}
    /\ packages \in DiscoveryResults
    /\ verbose \in Verbosities
    /\ fail_fast \in (IF command = "run" THEN BOOLEAN ELSE {FALSE})
    /\ sync \in (IF command = "run" THEN BOOLEAN ELSE {FALSE})
    /\ package \in (IF command = "run" THEN PatternTuples ELSE {<<>>})
    /\ extra_args \in (IF command = "run" THEN ExtraArgLists ELSE {<<>>})
    /\ pc = "start"
    /\ packages_with_tests = <<>>
    /\ idx = 0
    /\ results = <<>>
    /\ calls = <<>>
    /\ echoed = <<>>
    /\ exit_code = NoCode
    /\ exit_at = "none"
    /\ HarnessIdle
    /\ DiscoveryIdle
    /\ TwinIdle

Next ==
    \/ ClickRejects
    \/ Scan
    \/ RunSelect
    \/ LoopSync
    \/ LoopRunCached
    \/ LoopIsolated
    \/ Report

Spec == Init /\ [][Next]_vars

-----------------------------------------------------------------------------
(* Specification of one direct call of a strategy function, as the unit    *)
(* tests of tests/test_runner.py make them: the arguments, what the        *)
(* subprocess does and the time measured are the inputs.                   *)

StrategyFunctions == {"sync_package", "run_tests_in_package", "run_tests_isolated"}
\* the timeout argument: the default, and the 5 seconds the tests pass
TimeoutArgs == {DefaultTimeout, 5}
DependencyLists == { <<>>, <<"pytest">>, <<"pytest>=7.0", "pytest-cov">> }
PytestArgLists == { None, Some(<<>>), Some(<<"-x", "--tb=short">>) }

\* the arguments each function takes
ArgsOf(fn) ==
    CASE fn = "sync_package" ->
            [package_path : {1}, package_name : PackageNames, verbose : BOOLEAN]
      [] fn = "run_tests_in_package" ->
            [package_path : {1}, package_name : PackageNames,
             pytest_args : PytestArgLists, timeout : TimeoutArgs]
      [] fn = "run_tests_isolated" ->
            [package_path : {1}, package_name : PackageNames,
             test_dependencies : DependencyLists,
             pytest_args : PytestArgLists, timeout : TimeoutArgs]

\* subprocess.run(cmd, cwd=package_path, capture_output=True, text=True, timeout=...)
Spawn(cmd, cwd, timeout) == [cmd |-> cmd, cwd |-> cwd, timeout |-> timeout]

\* what uv prints when it cannot resolve the requested packages
ResolutionFailure == <<"No solution found when resolving dependencies">>
\* the outcomes of a directly called function: those of a run, and a
\* subprocess that reports a resolution failure on stderr
DirectProcOutcomes ==
    ProcOutcomes \cup { Completed(rc, out, ResolutionFailure) : rc \in ReturnCodes, out \in Stdouts }

InitStrategy ==
    /\ h_fn \in StrategyFunctions
    /\ h_args \in ArgsOf(h_fn)
    /\ h_proc \in DirectProcOutcomes
    /\ h_elapsed \in Durations
    /\ h_spawn = <<>>
    /\ h_ret = NoReturn
    /\ CliIdle
    /\ DiscoveryIdle
    /\ TwinIdle

CallSyncPackage ==
    /\ h_fn = "sync_package"
    /\ h_ret = NoReturn
    /\ h_spawn' = Spawn(SyncCmd(h_args.verbose), h_args.package_path, SyncTimeout)
    /\ h_ret' = sync_package(h_args.package_path, h_args.package_name,
                             h_args.verbose, h_proc)
    /\ UNCHANGED <<h_fn, h_args, h_proc, h_elapsed, cliVars, discVars, twin>>

CallRunTestsInPackage ==
    /\ h_fn = "run_tests_in_package"
    /\ h_ret = NoReturn
    /\ h_spawn' = Spawn(CachedCmd(h_args.pytest_args), h_args.package_path,
                        h_args.timeout)
    /\ h_ret' = run_tests_in_package(h_args.package_path, h_args.package_name,
                                     h_args.pytest_args, h_args.timeout,
                                     h_proc, h_elapsed)
    /\ UNCHANGED <<h_fn, h_args, h_proc, h_elapsed, cliVars, discVars, twin>>

CallRunTestsIsolated ==
    /\ h_fn = "run_tests_isolated"
    /\ h_ret = NoReturn
    /\ h_spawn' = Spawn(IsolatedCmd(h_args.package_path, h_args.test_dependencies,
                                    h_args.pytest_args),
                        h_args.package_path, h_args.timeout)
    /\ h_ret' = run_tests_isolated(h_args.package_path, h_args.package_name,
                                   h_args.test_dependencies, h_args.pytest_args,
                                   h_args.timeout, h_proc, h_elapsed)
    /\ UNCHANGED <<h_fn, h_args, h_proc, h_elapsed, cliVars, discVars, twin>>

NextStrategy ==
    \/ CallSyncPackage
    \/ CallRunTestsInPackage
    \/ CallRunTestsIsolated

SpecStrategy == InitStrategy /\ [][NextStrategy]_vars

-----------------------------------------------------------------------------
(* Specification of one call of find_packages(root) on a directory tree *)

InitDiscovery ==
    /\ d_root \in FileSystems
    /\ d_pc = "call"
    /\ d_stack = <<>>
    /\ d_packages = <<>>
    /\ d_visited = {}
    /\ d_result = <<>>
    /\ d_raised = "none"
    /\ CliIdle
    /\ HarnessIdle
    /\ TwinIdle

NextDiscovery ==
    \/ FindPackages
    \/ ScanEntry
    \/ ScanReturn
    \/ SortAndReturn

SpecDiscovery == InitDiscovery /\ [][NextDiscovery]_vars

-----------------------------------------------------------------------------
(* Specification of two invocations of `uvtest run` that differ only in the *)
(* number of -v: the second is given the packages, options and subprocess   *)
(* outcomes of the first.                                                   *)

\* at most this many discovered packages in the compared invocations
TwinMaxPkgs == 2

\* the subprocess of the i-th strategy call of the second invocation ends
\* as that of the i-th call of the first did
Replays ==
    twin.phase = 2
       => \A i \in DOMAIN calls :
             i <= Len(twin.calls) => calls[i].ok = twin.calls[i].ok

InitTwin ==
    /\ command = "run"
    /\ packages \in { ps \in DiscoveryResults : Len(ps) <= TwinMaxPkgs }
    /\ verbose \in Verbosities
    /\ fail_fast \in BOOLEAN
    /\ sync \in BOOLEAN
    /\ package \in { pt \in PatternTuples : Len(pt) <= 1 }
    /\ extra_args = <<>>
    /\ pc = "start"
    /\ packages_with_tests = <<>>
    /\ idx = 0
    /\ results = <<>>
    /\ calls = <<>>
    /\ echoed = <<>>
    /\ exit_code = NoCode
    /\ exit_at = "none"
    /\ twin \in { [phase |-> 1, verbose |-> v] : v \in Verbosities }
    /\ HarnessIdle
    /\ DiscoveryIdle

\* the first invocation has ended: keep what it did, and start the second
\* one with the other number of -v
SecondInvocation ==
    /\ twin.phase = 1
    /\ exit_at # "none"
    /\ twin' = [phase |-> 2, verbose |-> verbose, calls |-> calls,
                results |-> results, echoed |-> echoed,
                exit_code |-> exit_code, exit_at |-> exit_at]
    /\ verbose' = twin.verbose
    /\ pc' = "start"
    /\ packages_with_tests' = <<>>
    /\ idx' = 0
    /\ results' = <<>>
    /\ calls' = <<>>
    /\ echoed' = <<>>
    /\ exit_code' = NoCode
    /\ exit_at' = "none"
    /\ UNCHANGED <<command, packages, fail_fast, sync, package, extra_args,
                   harnessVars, discVars>>

NextTwin ==
    \/ RunSelect /\ Replays'
    \/ LoopSync /\ Replays'
    \/ LoopRunCached /\ Replays'
    \/ LoopIsolated /\ Replays'
    \/ Report /\ Replays'
    \/ SecondInvocation

SpecTwin == InitTwin /\ [][NextTwin]_vars

-----------------------------------------------------------------------------
(* Properties of the strategy functions, over SpecStrategy *)

\* the call has been made and the function has handed something back
Returned == h_ret # NoReturn
\* what came back is a record, not an exception leaving the function
ReturnedRecord == Returned /\ "raised" \notin DOMAIN h_ret
\* the success flag of the returned record, whatever its type
Flag(ret) == IF "success" \in DOMAIN ret THEN ret.success ELSE ret.passed

\* C1: run_tests_isolated classifies the subprocess exit code as
\* passed = (exit code = 0) or (exit code = 5): passed is true exactly for
\* the codes 0 and 5 and false for every other code.
C1_IsolatedPassesOnZeroOrFive ==
    (h_fn = "run_tests_isolated" /\ ReturnedRecord /\ h_proc.kind = "completed")
        => (h_ret.passed <=> h_proc.returncode \in {0, 5})

\* C2: run_tests_in_package counts only exit code 0 as passed: for every
\* returned exit code c, passed is true iff c = 0 (so 5 and 2 give false),
\* and return_code is c.
C2_CachedPassesOnZeroOnly ==
    (h_fn = "run_tests_in_package" /\ ReturnedRecord /\ h_proc.kind = "completed")
        => /\ h_ret.passed <=> (h_proc.returncode = 0)
           /\ h_ret.return_code = h_proc.returncode

\* C2 witness: the cached runner has returned for a subprocess that ended
\* with "no tests collected"
C2_Witness ==
    /\ h_fn = "run_tests_in_package"
    /\ ReturnedRecord
    /\ h_proc.kind = "completed"
    /\ h_proc.returncode = 5
    /\ ~h_ret.passed
    /\ h_ret.return_code = 5

\* the phrases by which the three functions report a timeout
TimeoutIndicators ==
    {"Test execution timed out after ", "Sync timed out after 300 seconds"}
HasTimeoutIndicator(output) ==
    \E i \in DOMAIN output : output[i] \in TimeoutIndicators

\* C10: a subprocess call that exceeds its timeout, in any of the three
\* functions, yields a returned record (no exception leaves the function)
\* with passed/success false, return_code -1 and a timeout indicator in
\* its output.
C10_TimeoutBecomesFailedRecord ==
    (Returned /\ h_proc.kind = "TimeoutExpired")
        => /\ ReturnedRecord
           /\ ~Flag(h_ret)
           /\ h_ret.return_code = -1
           /\ HasTimeoutIndicator(h_ret.output)

\* C11: every failure of the subprocess call itself, the external binary
\* being absent or any other OS-level failure, in any of the three functions,
\* comes back as a record with passed/success false and return_code -1; no
\* exception leaves the function.
C11_LaunchFailureBecomesFailedRecord ==
    (Returned /\ h_proc.kind \in {"FileNotFoundError"} \cup OSErrorKinds)
        => /\ ReturnedRecord
           /\ ~Flag(h_ret)
           /\ h_ret.return_code = -1

\* C11 witness: sync_package has returned from a call whose subprocess could
\* not be started for lack of permission
C11_Witness ==
    /\ h_fn = "sync_package"
    /\ h_proc.kind = "PermissionError"
    /\ ReturnedRecord
    /\ ~h_ret.success
    /\ h_ret.return_code = -1

\* C10 witness: the isolated runner has returned from a call that timed out
\* with a non-default timeout
C10_Witness ==
    /\ h_fn = "run_tests_isolated"
    /\ h_proc.kind = "TimeoutExpired"
    /\ h_args.timeout = 5
    /\ ReturnedRecord
    /\ h_ret.return_code = -1

-----------------------------------------------------------------------------
(* Properties of the run and scan commands, over Spec *)

Count(seq, x) == Cardinality({ i \in DOMAIN seq : seq[i] = x })
PathsOf(ps) == { ps[i].path : i \in DOMAIN ps }
\* the packages a strategy function has been invoked for, in order: every
\* package's first call is sync_package or run_tests_isolated
Attempted ==
    LET first == SelectSeq(calls, LAMBDA c : c.fn # "run_tests_in_package")
    IN  [i \in DOMAIN first |-> first[i].path]
\* the number of sync_package calls among the first i calls: the position in
\* packages_with_tests of the package the i-th call is about
SyncCallsUpTo(i) == Cardinality({ j \in 1..i : calls[j].fn = "sync_package" })
\* the run ended at one of the exits of cli.py that follow the loop
RunWentThroughLoop == command = "run" /\ pc = "exited" /\ exit_at = "aggregate"

\* C3: in sync mode run_tests_in_package is invoked for a package only right
\* after sync_package returned success for that same package; when
\* sync_package does not report success, run_tests_in_package is never
\* invoked for that package and a failed result is recorded in its place.
C3_SyncGatesRun ==
    /\ \A i \in DOMAIN calls :
         calls[i].fn = "run_tests_in_package"
            => /\ i > 1
               /\ calls[i - 1].fn = "sync_package"
               /\ calls[i - 1].path = calls[i].path
               /\ calls[i - 1].ok
    /\ \A i \in DOMAIN calls :
         (calls[i].fn = "sync_package" /\ ~calls[i].ok)
            => /\ \A j \in DOMAIN calls :
                    calls[j].fn = "run_tests_in_package"
                        => calls[j].path # calls[i].path
               /\ SyncCallsUpTo(i) <= Len(results)
               /\ results[SyncCallsUpTo(i)] = <<calls[i].name, FALSE, 0>>

\* C3 witness: a finished sync-mode run in which the sync of one package
\* failed and a later package was synced and tested
C3_Witness ==
    /\ RunWentThroughLoop
    /\ sync
    /\ \E i, j \in DOMAIN calls :
         /\ i < j
         /\ calls[i].fn = "sync_package" /\ ~calls[i].ok
         /\ calls[j].fn = "run_tests_in_package"

\* C4: with fail-fast the loop stops at the first package whose outcome is
\* not a success (failed test run or failed sync): a failed result is the
\* last result, the loop is over, and no strategy function was invoked for a
\* later package; with 3 selected packages of which the first fails there is
\* exactly one attempt and one result.
C4_FailFastStopsAtFirstFailure ==
    fail_fast =>
      /\ \A i \in 1..Len(results) :
           ~results[i][2]
              => /\ i = Len(results)
                 /\ pc \in {"report", "exited"}
                 /\ \A c \in DOMAIN calls :
                      calls[c].path \in { packages_with_tests[k].path : k \in 1..i }
      /\ (Len(packages_with_tests) = 3 /\ results # <<>> /\ ~results[1][2])
            => /\ Len(results) = 1
               /\ Attempted = <<packages_with_tests[1].path>>

\* C4 witness: a finished fail-fast run over three selected packages whose
\* first package failed its tests
C4_Witness ==
    /\ RunWentThroughLoop
    /\ fail_fast
    /\ Len(packages_with_tests) = 3
    /\ Len(results) = 1
    /\ ~results[1][2]
    /\ Len(calls) = 2
    /\ exit_code = 1

\* C5: without fail-fast every selected package is attempted exactly once,
\* in order, whatever the outcomes of the earlier packages, and has its
\* result recorded.
C5_EveryPackageAttemptedOnce ==
    (command = "run" /\ pc = "exited" /\ ~fail_fast
        /\ exit_at \notin {"no_match", "no_packages"})
      => /\ Attempted = [i \in 1..Len(packages_with_tests) |-> packages_with_tests[i].path]
         /\ Len(results) = Len(packages_with_tests)

\* C6: after the loop the run command exits with code 0 if and only if no
\* recorded result reports failure, and with code 1 if any does.
C6_ExitCodeIsAggregate ==
    RunWentThroughLoop
      => /\ exit_code \in {0, 1}
         /\ exit_code = 0 <=> (\A i \in 1..Len(results) : results[i][2])
         /\ exit_code = 1 <=> (\E i \in 1..Len(results) : ~results[i][2])

\* C6 witness: a finished run whose only failed result is not the last one
C6_Witness ==
    /\ RunWentThroughLoop
    /\ Len(results) = 3
    /\ ~results[1][2]
    /\ results[2][2]
    /\ results[3][2]
    /\ exit_code = 1

\* the names and the pattern of the filter example: core-api, core-utils,
\* service-worker and core-*
CoreApi == <<"c", "o", "r", "e", "-", "a", "p", "i">>
CoreUtils == <<"c", "o", "r", "e", "-", "u", "t", "i", "l", "s">>
ServiceWorker == <<"s", "e", "r", "v", "i", "c", "e", "-", "w", "o", "r", "k", "e", "r">>
CoreStar == <<"c", "o", "r", "e", "-", "*">>
ExamplePackages ==
    <<Package(CoreApi, 1, TRUE), Package(CoreUtils, 2, TRUE),
      Package(ServiceWorker, 3, TRUE)>>

\* C7: with --package patterns the packages selected for execution are
\* exactly the packages with tests whose name matches at least one pattern,
\* each once even if several patterns match it, in the order discovery
\* returned them; a run that goes through the whole list attempts exactly
\* these, in that order.
C7_FilterSelectsMatchingPackages ==
    (command = "run" /\ pc # "start" /\ package # <<>>)
      => /\ \A i, j \in DOMAIN packages_with_tests :
              i < j => packages_with_tests[i].path < packages_with_tests[j].path
         /\ { packages_with_tests[i] : i \in DOMAIN packages_with_tests }
              = { packages[k] : k \in { n \in DOMAIN packages :
                        /\ packages[n].has_tests
                        /\ \E m \in DOMAIN package :
                              fnmatch(packages[n].name, package[m]) } }
         /\ (RunWentThroughLoop /\ ~fail_fast)
              => Attempted = [i \in DOMAIN packages_with_tests |->
                                 packages_with_tests[i].path]
         /\ FilterPackages(ExamplePackages, <<CoreStar>>)
              = <<ExamplePackages[1], ExamplePackages[2]>>

\* C7 witness: a finished run with two patterns that both match a selected
\* package, two packages selected, and a package with tests left out
C7_Witness ==
    /\ RunWentThroughLoop
    /\ ~fail_fast
    /\ Len(package) = 2
    /\ Len(packages_with_tests) = 2
    /\ \E i \in DOMAIN packages_with_tests :
         /\ fnmatch(packages_with_tests[i].name, package[1])
         /\ fnmatch(packages_with_tests[i].name, package[2])
    /\ \E k \in DOMAIN packages :
         /\ packages[k].has_tests
         /\ packages[k].path \notin PathsOf(packages_with_tests)

\* no package with tests has a name that one of the patterns matches
FilterMiss ==
    /\ package # <<>>
    /\ \A k \in DOMAIN packages :
         packages[k].has_tests
            => \A m \in DOMAIN package : ~fnmatch(packages[k].name, package[m])

\* C8: when --package patterns are given and no package with tests matches
\* any of them, the run command reports the filter miss once, exits with
\* code 1 and invokes no strategy function.
C8_FilterMissExits ==
    (command = "run" /\ pc # "start" /\ FilterMiss)
      => /\ pc = "exited"
         /\ exit_code = 1
         /\ calls = <<>>
         /\ results = <<>>
         /\ Count(echoed, "No packages match the filter(s)") = 1
         /\ Len(echoed) = 1

\* C8 witness: the run has ended on patterns that miss while discovery had
\* returned packages with tests
C8_Witness ==
    /\ command = "run"
    /\ pc = "exited"
    /\ FilterMiss
    /\ \E k \in DOMAIN packages : packages[k].has_tests
    /\ exit_at = "no_match"

\* discovery returned no package with a tests directory
NoPackageHasTests == \A k \in DOMAIN packages : ~packages[k].has_tests

\* C9: without a filter, when discovery yields no package with tests, the
\* run command exits with code 1 without invoking a strategy function; the
\* scan command exits 1 in that case and 0 when a package with tests exists.
C9_NothingToRunExits ==
    /\ (command = "run" /\ pc # "start" /\ package = <<>> /\ NoPackageHasTests)
          => /\ pc = "exited"
             /\ exit_code = 1
             /\ calls = <<>>
    /\ (command = "scan" /\ pc # "start")
          => /\ pc = "exited"
             /\ calls = <<>>
             /\ exit_code = (IF NoPackageHasTests THEN 1 ELSE 0)

\* C9 witness: the run has ended where discovery had found packages, none
\* of them with tests, and no filter was given
C9_Witness ==
    /\ command = "run"
    /\ pc = "exited"
    /\ package = <<>>
    /\ packages # <<>>
    /\ NoPackageHasTests
    /\ exit_at = "no_packages"

\* how many times the run has called strategy function fn
CallsOf(fn) == Cardinality({ i \in DOMAIN calls : calls[i].fn = fn })

\* C12: the two strategies exclude each other within a run: without --sync
\* neither sync_package nor run_tests_in_package is ever called, and with
\* --sync run_tests_isolated is never called, whatever the package.
C12_StrategiesAreExclusive ==
    \A i \in 1..Len(calls) :
        IF sync
        THEN calls[i].fn \in {"sync_package", "run_tests_in_package"}
        ELSE calls[i].fn = "run_tests_isolated"

\* C12 witness: a --sync run over two packages has finished, having synced
\* and tested both
C12_Witness ==
    /\ sync
    /\ pc = "exited"
    /\ exit_at = "aggregate"
    /\ Len(packages_with_tests) = 2
    /\ CallsOf("sync_package") = 2
    /\ CallsOf("run_tests_in_package") = 2

\* C13: every Package that discovery produced carries test_dependencies, and
\* an isolated-mode run hands each package's test_dependencies, with its
\* path and name, to run_tests_isolated (so reading the attribute at line
\* 202 never ends the run).
C13_PackagesCarryTestDependencies ==
    /\ \A i \in DOMAIN packages : "test_dependencies" \in DOMAIN packages[i]
    /\ (command = "run" /\ ~sync) => exit_at # "uncaught"
    /\ (command = "run" /\ ~sync /\ exit_at = "aggregate")
          => \A i \in DOMAIN packages_with_tests :
                \E j \in DOMAIN calls :
                    /\ calls[j].fn = "run_tests_isolated"
                    /\ calls[j].path = packages_with_tests[i].path
                    /\ calls[j].name = packages_with_tests[i].name

\* C14: run forwards the words after `--` to the strategy function of every
\* package as pytest_args, unchanged and in order, and passes None when
\* there are none: such a command line is accepted, and every test call
\* carries exactly those words.
C14_ExtraArgsAreForwarded ==
    /\ (command = "run" /\ extra_args # <<>>) => exit_at # "usage"
    /\ \A i \in DOMAIN calls :
          calls[i].fn \in {"run_tests_in_package", "run_tests_isolated"}
             => PassedPytestArgs = (IF extra_args = <<>> THEN None ELSE Some(extra_args))

-----------------------------------------------------------------------------
(* Properties of find_packages, over SpecDiscovery *)

\* every directory strictly below the root that can carry a manifest, with
\* its path
Below(root) ==
    { [path |-> <<k.name>>, dir |-> k] : k \in root.kids }
    \cup UNION { { [path |-> <<k.name, l.name>>, dir |-> l] : l \in k.kids } : k \in root.kids }
DirAt(path) == (CHOOSE b \in Below(d_root) : b.path = path).dir
BaseName(path) == path[Len(path)]
\* the exclusion rule as the specification words it
InSkipSetOrHidden(name) == name \in SKIP_DIRS \/ Head(name) = "."
Excluded(path) == \E i \in DOMAIN path : InSkipSetOrHidden(path[i])
\* the permission bits let the user look into the directory at path: every
\* directory above it may be listed, and it may itself be searched
Reachable(path) ==
    \A b \in Below(d_root) :
        /\ (Len(b.path) < Len(path) /\ SubSeq(path, 1, Len(b.path)) = b.path)
               => b.dir.access = "rwx"
        /\ b.path = path => b.dir.access # "none"
PackagePaths(ps) == { ps[i].path : i \in DOMAIN ps }
FoundSoFar == PackagePaths(d_packages) \cup PackagePaths(d_result)

\* C15: find_packages never calls _scan_directory on a directory whose name
\* is in the skip set or starts with '.', nor on anything beneath one, and
\* never reports a package at or beneath one, at any depth.
C15_SkippedDirsAreNeverEntered ==
    /\ \A p \in d_visited : ~Excluded(p)
    /\ \A p \in FoundSoFar : ~Excluded(p)

\* C15 witness: a scan has returned packages from a tree that has a manifest
\* in `dist`, a manifest one level beneath it, and a manifest in a hidden
\* directory inside an ordinary package
C15_Witness ==
    /\ d_pc = "returned"
    /\ d_result # <<>>
    /\ \E k \in d_root.kids :
          /\ k.name = Dist
          /\ k.manifest.kind = "named"
          /\ \E l \in k.kids : l.manifest.kind = "named"
    /\ \E k \in d_root.kids :
          /\ ~InSkipSetOrHidden(k.name)
          /\ \E l \in k.kids : l.name = Hidden /\ l.manifest.kind = "named"

\* C16: every package find_packages emits is a strict descendant of the
\* root, never the root itself, and a root whose only manifest is its own
\* yields the empty list.
C16_RootManifestIsNotAPackage ==
    /\ FoundSoFar \subseteq { b.path : b \in Below(d_root) }
    /\ (/\ d_pc = "returned"
        /\ \A b \in Below(d_root) : b.dir.manifest.kind = "absent")
          => d_result = <<>>

\* C16 witness: the scan of a root that has a manifest and two
\* subdirectories without one has returned the empty list
C16_Witness ==
    /\ d_pc = "returned"
    /\ d_root.manifest.kind = "named"
    /\ Cardinality(d_root.kids) = 2
    /\ \A b \in Below(d_root) : b.dir.manifest.kind = "absent"
    /\ d_result = <<>>

\* the name the claim expects for the package of a directory
ExpectedName(path) ==
    LET m == DirAt(path).manifest
    IN  IF m.kind = "named" THEN m.name
        ELSE IF m.kind = "nonstring" THEN NotAString
        ELSE BaseName(path)

\* C17: an emitted package carries the value the manifest reader returned
\* for project.name and otherwise (no field, no project table, unparsable
\* or unreadable manifest) exactly the base name of its directory; and when
\* find_packages returns, every non-excluded directory with a manifest that
\* the permission bits let it look into, also one with an unparsable
\* manifest, has its package.
C17_NameIsManifestNameOrDirectoryName ==
    /\ \A i \in DOMAIN d_packages :
          d_packages[i].name = ExpectedName(d_packages[i].path)
    /\ d_pc = "returned"
          => /\ \A i \in DOMAIN d_result :
                   d_result[i].name = ExpectedName(d_result[i].path)
             /\ \A b \in Below(d_root) :
                   (~Excluded(b.path) /\ Reachable(b.path) /\ b.dir.manifest.kind # "absent")
                      => b.path \in PackagePaths(d_result)

\* C17 witness: the scan has returned a package named by its manifest
\* differently from its directory, and a package of a directory with a
\* malformed manifest named after the directory
C17_Witness ==
    /\ d_pc = "returned"
    /\ \E i, j \in DOMAIN d_result :
          /\ DirAt(d_result[i].path).manifest.kind = "named"
          /\ d_result[i].name # BaseName(d_result[i].path)
          /\ DirAt(d_result[j].path).manifest.kind = "malformed"
          /\ d_result[j].name = BaseName(d_result[j].path)

\* the name of a package is strictly less than that of the next one
StrictlyAscending(ps) ==
    \A i \in 1..(Len(ps) - 1) :
        /\ NameLeq(ps[i].name, ps[i + 1].name)
        /\ ps[i].name # ps[i + 1].name
\* the name of a package is less than or equal to that of the next one
Ascending(ps) ==
    \A i \in 1..(Len(ps) - 1) : NameLeq(ps[i].name, ps[i + 1].name)
\* the two lists hold the same packages
SamePackages(ps, qs) ==
    /\ Len(ps) = Len(qs)
    /\ PackagePaths(ps) = PackagePaths(qs)
    /\ \A i \in DOMAIN ps : \E j \in DOMAIN qs : ps[i] = qs[j]

\* C18, as stated: the list find_packages returns is strictly sorted
\* ascending by name: each name is strictly less than the next.
C18_OutputStrictlySorted ==
    d_pc = "returned" => StrictlyAscending(d_result)

\* C18, amended: the list find_packages returns holds the packages the scan
\* found, sorted ascending by name, where packages of equal name may stand
\* next to each other.
C18_OutputSortedAllowingEqualNames ==
    d_pc = "returned"
       => /\ Ascending(d_result)
          /\ SamePackages(d_result, d_packages)

\* C18 witness: find_packages has returned three packages that the scan
\* found in another order than the sorted one, two of them of the same name
C18_Witness ==
    /\ d_pc = "returned"
    /\ Len(d_result) = 3
    /\ d_result # d_packages
    /\ \E i \in 1..2 : d_result[i].name = d_result[i + 1].name

\* C19: an emitted package has has_tests true exactly when its directory has
\* a direct child directory named tests or test; a regular file named tests
\* does not count.
C19_HasTestsIffTestDirectory ==
    \A p \in { d_packages[i] : i \in DOMAIN d_packages } \cup { d_result[i] : i \in DOMAIN d_result } :
        p.has_tests <=> DirAt(p.path).tests \in {"tests_dir", "test_dir"}

\* C19 witness: find_packages has returned a package with a tests directory,
\* one with a test directory and one with a regular file named tests
C19_Witness ==
    /\ d_pc = "returned"
    /\ \E i, j, k \in DOMAIN d_result :
          /\ DirAt(d_result[i].path).tests = "tests_dir" /\ d_result[i].has_tests
          /\ DirAt(d_result[j].path).tests = "test_dir" /\ d_result[j].has_tests
          /\ DirAt(d_result[k].path).tests = "tests_file" /\ ~d_result[k].has_tests

\* C20: the manifest reader never lets an error out and returns the name
\* only if it is a string: no scan ends with the reader's AttributeError,
\* and a package whose manifest has a project that is not a table or a name
\* that is not a string is named after its directory.
C20_ManifestReaderIsTotal ==
    /\ d_raised # "AttributeError"
    /\ \A i \in DOMAIN d_packages :
          DirAt(d_packages[i].path).manifest.kind \in {"nonstring", "nontable"}
             => d_packages[i].name = BaseName(d_packages[i].path)

-----------------------------------------------------------------------------
(* Further properties of the strategy functions, over SpecStrategy *)

\* phrases of a failed dependency resolution, and the remediation hint
DependencyFailurePhrases == { ResolutionFailure[1] }
RemediationHint == <<"Hint: declare test dependencies or use --sync">>
MentionsDependencyFailure(output) ==
    \E i \in DOMAIN output : output[i] \in DependencyFailurePhrases
\* the combined output of a completed subprocess, as the functions store it
CombinedOutput == Strip(CombineOutput(h_proc.stdout, h_proc.stderr))

\* C21: run_tests_isolated appends a fixed remediation hint to the output
\* when the exit code is non-zero and the combined output contains a
\* dependency-resolution-failure phrase, and otherwise returns the combined
\* output with nothing appended.
C21_HintOnDependencyFailure ==
    (Returned /\ h_fn = "run_tests_isolated" /\ h_proc.kind = "completed")
       => h_ret.output =
             IF h_proc.returncode # 0 /\ MentionsDependencyFailure(CombinedOutput)
             THEN CombinedOutput \o RemediationHint
             ELSE CombinedOutput

-----------------------------------------------------------------------------
(* Further properties of the run and scan commands, over Spec *)

\* C22: at every point of a run the result sequence is the in-order image
\* of a prefix of the selected package list: entry i is the entry of the
\* i-th selected package, the packages attempted so far are that prefix
\* (plus the package being processed, between its sync and its test), and
\* so no package has more than one entry.
C22_ResultsArePrefixImage ==
    command = "run"
       => /\ Len(results) <= Len(packages_with_tests)
          /\ \A i \in 1..Len(results) : results[i][1] = packages_with_tests[i].name
          /\ Len(Attempted) <= Len(packages_with_tests)
          /\ Attempted = [i \in 1..Len(Attempted) |-> packages_with_tests[i].path]
          /\ Len(Attempted) = Len(results) + (IF pc = "run_cached" THEN 1 ELSE 0)

\* C22 witness: a run over three packages stands between the sync and the
\* test of the third, with the results of the first two recorded, the first
\* one a failure
C22_Witness ==
    /\ command = "run"
    /\ pc = "run_cached"
    /\ Len(packages_with_tests) = 3
    /\ idx = 3
    /\ Len(results) = 2
    /\ ~results[1][2]
    /\ results[2][2]

-----------------------------------------------------------------------------
(* Further properties of find_packages, over SpecDiscovery *)

\* C23: find_packages descends into every non-excluded directory whether or
\* not it emitted a package for it: when it returns, every non-excluded
\* directory below the root that the permission bits let it look into has
\* been scanned, and each one that holds a manifest has exactly one
\* package, also when it lies inside another package.
C23_DescendsThroughPackages ==
    d_pc = "returned"
       => \A b \in Below(d_root) :
             (~Excluded(b.path) /\ Reachable(b.path))
                => /\ b.path \in d_visited
                   /\ b.dir.manifest.kind # "absent"
                         => Cardinality({ i \in DOMAIN d_result : d_result[i].path = b.path }) = 1

\* C23 witness: find_packages has returned a package and a second package
\* nested in the directory of the first
C23_Witness ==
    /\ d_pc = "returned"
    /\ \E i, j \in DOMAIN d_result :
          /\ Len(d_result[i].path) = 1
          /\ Len(d_result[j].path) = 2
          /\ d_result[j].path[1] = d_result[i].path[1]

\* C24: a directory that a permission error keeps find_packages from
\* reading is passed over as if it were empty: the permission error never
\* leaves find_packages, and nothing beneath such a directory is reported.
C24_UnreadableDirsAreSkipped ==
    /\ d_raised # "PermissionError"
    /\ \A p \in FoundSoFar : \A b \in Below(d_root) :
          (b.dir.access # "rwx" /\ Len(b.path) < Len(p))
             => SubSeq(p, 1, Len(b.path)) # b.path

\* C25: a package without a tests or test directory is never executed: it
\* is not among the selected packages, no strategy function is called for
\* it and no result is recorded for it, whether or not a --package pattern
\* matches its name.
C25_PackagesWithoutTestsAreNotRun ==
    /\ \A i \in DOMAIN packages_with_tests : packages_with_tests[i].has_tests
    /\ \A i \in DOMAIN calls : packages[calls[i].path].has_tests
    /\ \A i \in DOMAIN results :
          /\ i <= Len(packages_with_tests)
          /\ packages_with_tests[i].has_tests
          /\ results[i][1] = packages_with_tests[i].name

\* C25 witness: a run with a --package pattern has finished its loop; a
\* package without tests matches the pattern and was passed over, another
\* package was run
C25_Witness ==
    /\ RunWentThroughLoop
    /\ package # <<>>
    /\ results # <<>>
    /\ \E k \in DOMAIN packages :
          /\ ~packages[k].has_tests
          /\ \E m \in DOMAIN package : fnmatch(packages[k].name, package[m])
          /\ \A i \in DOMAIN calls : calls[i].path # k
          /\ \A i \in DOMAIN results : results[i][1] # packages[k].name

-----------------------------------------------------------------------------
(* Success flags and return codes of the strategy functions, over SpecStrategy *)

\* the return codes a strategy classifies as success, as the specification
\* gives them
SuccessSet(fn) == IF fn = "run_tests_isolated" THEN {0, 5} ELSE {0}

\* C26: in every record a strategy function returns the flag follows from
\* the return code: SyncResult.success is true exactly when return_code is
\* 0, a TestResult that passed has a return code in the success set of its
\* strategy, and return_code -1 always comes with a false flag.
C26_FlagIsDerivedFromReturnCode ==
    ReturnedRecord
       => /\ h_fn = "sync_package" => (h_ret.success <=> h_ret.return_code = 0)
          /\ (h_fn # "sync_package" /\ h_ret.passed)
                => h_ret.return_code \in SuccessSet(h_fn)
          /\ h_ret.return_code = -1 => ~Flag(h_ret)
          /\ h_proc.kind = "completed" => h_ret.return_code = h_proc.returncode

\* C26 witness: sync_package has returned from a subprocess that exited
\* with code 2, and reports failure with that code
C26_Witness ==
    /\ h_fn = "sync_package"
    /\ h_proc.kind = "completed"
    /\ h_proc.returncode = 2
    /\ ReturnedRecord
    /\ ~h_ret.success
    /\ h_ret.return_code = 2

-----------------------------------------------------------------------------
(* Further properties of the run command, over Spec *)

\* how far the k-th selected package has come: 0 pending, 1 synced and
\* about to be tested, 2 its outcome is recorded
Rank(k) ==
    IF k <= Len(results) THEN 2
    ELSE IF k = idx /\ pc = "run_cached" THEN 1
    ELSE 0
\* no strategy function is called twice for a package, and no call follows
\* a failed call for the same package
NoRepeatedCalls ==
    \A i, j \in DOMAIN calls :
        (i < j /\ calls[i].path = calls[j].path)
           => /\ calls[i].fn # calls[j].fn
              /\ calls[i].ok

\* C27: in every step of a run each package's state stays or moves forward
\* (pending, then sync failed, or running and then its final outcome), no
\* strategy function is invoked a second time for a package, and a package
\* whose subprocess failed is not attempted again.
C27_NoRetries ==
    [][ /\ \A k \in DOMAIN packages_with_tests : Rank(k)' >= Rank(k)
        /\ idx' >= idx
        /\ NoRepeatedCalls' ]_vars

\* C27 witness: a run without --fail-fast over three packages has ended; the
\* sync of the first failed, and the five calls made are one sync for each
\* package and one test run for the second and the third
C27_Witness ==
    /\ RunWentThroughLoop
    /\ ~fail_fast
    /\ Len(packages_with_tests) = 3
    /\ Len(calls) = 5
    /\ ~calls[1].ok
    /\ CallsOf("sync_package") = 3
    /\ NoRepeatedCalls

-----------------------------------------------------------------------------
(* Properties of two invocations of run, over SpecTwin *)

IsPrefix(s, t) == Len(s) <= Len(t) /\ s = SubSeq(t, 1, Len(s))

\* C28: two invocations of run on the same packages, with the same flags
\* and the same subprocess outcomes, that differ only in verbosity call the
\* same strategy functions for the same packages in the same order, record
\* the same results and exit at the same place with the same code.
C28_VerbosityDoesNotSteer ==
    twin.phase = 2
       => /\ IsPrefix(calls, twin.calls)
          /\ IsPrefix(results, twin.results)
          /\ exit_at # "none"
                => /\ calls = twin.calls
                   /\ results = twin.results
                   /\ exit_code = twin.exit_code
                   /\ exit_at = twin.exit_at

\* C28 witness: a quiet and a very verbose --fail-fast run over two
\* packages have both ended after the failed sync of the second package,
\* having printed different things
C28_Witness ==
    /\ twin.phase = 2
    /\ exit_at = "aggregate"
    /\ fail_fast
    /\ twin.verbose = 0
    /\ verbose = 2
    /\ Len(calls) = 3
    /\ ~calls[3].ok
    /\ echoed # twin.echoed
    /\ exit_code = 1

-----------------------------------------------------------------------------
(* Properties of the exits of run, over Spec *)

\* the selected packages, computed from the command line and discovery
Selected ==
    SelectSeq(packages, LAMBDA p :
        /\ p.has_tests
        /\ package # <<>> => \E m \in DOMAIN package : fnmatch(p.name, package[m]))

\* C29: run exits with code 0 only at its final exit and only if every
\* selected package was attempted and has a passing result: never with an
\* empty result sequence, after a failed sync or with a selected package
\* left out, with or without --fail-fast.
C29_ExitZeroMeansAllPassed ==
    (command = "run" /\ exit_code = 0)
       => /\ exit_at = "aggregate"
          /\ results # <<>>
          /\ Len(results) = Len(Selected)
          /\ \A i \in DOMAIN results :
                /\ results[i][1] = Selected[i].name
                /\ results[i][2]
          /\ Attempted = [i \in DOMAIN Selected |-> Selected[i].path]
          /\ \A i \in DOMAIN calls : calls[i].ok

\* C29 witness: a --fail-fast run with a --package pattern has exited with
\* code 0 after two packages passed
C29_Witness ==
    /\ command = "run"
    /\ exit_code = 0
    /\ fail_fast
    /\ package # <<>>
    /\ Len(results) = 2
    /\ Len(calls) = 4

\* C30: an invocation of run (without words after `--`) ends only by one
\* of its explicit exits, no match, nothing to run or the final aggregate,
\* with code 0 or 1, in isolated as in sync mode; it never ends by an
\* uncaught exception, and its loop visits no selected package twice.
C30_RunEndsByAnExplicitExit ==
    (command = "run" /\ extra_args = <<>>)
       => /\ exit_at \in {"none", "no_match", "no_packages", "aggregate"}
          /\ exit_code \in {NoCode, 0, 1}
          /\ exit_at # "none" => exit_code \in {0, 1}
          /\ idx <= Len(packages_with_tests) + 1
          /\ \A i, j \in DOMAIN Attempted : i # j => Attempted[i] # Attempted[j]

=============================================================================
